---- MODULE Spec2Model ----
(***************************************************************************)
(* AnnouncementURLManager (src/nthu_scraper/announcement_url_manager.py):  *)
(* the URL record store, its reconciliation, crawl selection, crawl        *)
(* outcome recording, cleanup and statistics, as a state machine.          *)
(*                                                                         *)
(* Time is counted in days.  `now` is the last value some datetime.now()   *)
(* call returned; the clock may advance between any two reads, so every    *)
(* further call returns that value or a later one.                         *)
(* A URL is the tuple of the code points of its characters, so that        *)
(* sorted() can compare them as Python compares str.                       *)
(*                                                                         *)
(* Spec, SpecHist and SpecCycle start from a manager constructed on a path *)
(* without a file; SpecRoundTrip adds the load() after a save(); SpecLoad  *)
(* constructs the manager on a file of any content and follows the first   *)
(* MaxCalls calls; SpecObservation runs in observation / fetch cycles.     *)
(* A call that raises leaves the name of the exception in `raised`.        *)
(* SpecShared runs two instances on one file, SpecCrash cuts a save()      *)
(* short, SpecEvents keeps the history of failure events, SpecPlan is a    *)
(* caller that reports crawls of its plan only, and SpecForgotten is a     *)
(* url that no discovery names again, under fairness.                      *)
(*                                                                         *)
(* The announcement-list spider                                            *)
(* (src/nthu_scraper/spiders/nthu_announcements_list.py) is modelled by    *)
(* SpecPipeline (AnnouncementListPipeline and announcements_list.json)     *)
(* and SpecSpider (the requests of one run); the manager plays no part in  *)
(* them, and they none in the specifications of the manager.               *)
(***************************************************************************)
EXTENDS Integers, Sequences, FiniteSets, TLC

\* ------------------------------------------------------------ bounds
MaxTime == 1
MaxFailed == 6
MaxDays == 1
MaxCalls == 2

\* ------------------------------------------------- program constants
FailedThreshold == 5
RecentHours == 24

\* "az" and "z": the shorter string is the greater one
URLs == {<<97, 122>>, <<122>>}

\* metadata arguments: None, {} and a non-empty mapping (a department name, which
\* in this repository is Chinese text)
MetaNone == "None"
MetaEmpty == "{}"
MetaDept == "{department}"
MetadataArgs == {MetaNone, MetaEmpty, MetaDept}

Days == 0..MaxDays

\* ------------------------------------------------------- timestamps
\* JSON null / Python None in a timestamp field
NoneValue == [tag |-> "None", v |-> 0]

\* the string "", and a string that is no ISO timestamp
EmptyString == [tag |-> "str", v |-> 0]

Garbage == [tag |-> "str", v |-> 1]

\* datetime.isoformat(): the string stored for the instant t
Isoformat(t) == [tag |-> "iso", v |-> t]

\* datetime.fromisoformat(s) raises ValueError / TypeError unless s is an ISO string
FromIsoformatRaises(s) == s.tag # "iso"

FromIsoformat(s) == s.v

\* the values one datetime.now() call may return when the last call returned clk
ClockReads(clk) == {t \in clk..(clk + 1) : t <= MaxTime}

\* timedelta(days=d), in days
TimedeltaDays(d) == d

\* timedelta(hours=h), in days
TimedeltaHours(h) == h \div 24

\* ---------------------------------------------------------- strings
\* str.__lt__: the first differing code point decides, a proper prefix is smaller
StrLess(a, b) ==
    \E i \in 1..(Len(a) + 1) :
        /\ \A j \in 1..(i - 1) : j <= Len(b) /\ a[j] = b[j]
        /\ \/ i = Len(a) + 1 /\ Len(b) >= i
           \/ i <= Len(a) /\ i <= Len(b) /\ a[i] < b[i]

RECURSIVE InsertSorted(_, _)
InsertSorted(x, s) ==
    IF s = <<>> THEN <<x>>
    ELSE IF StrLess(x, Head(s)) THEN <<x>> \o s
    ELSE <<Head(s)>> \o InsertSorted(x, Tail(s))

\* sorted(urls)
RECURSIVE Sorted(_)
Sorted(s) == IF s = <<>> THEN <<>> ELSE InsertSorted(Head(s), Sorted(Tail(s)))

\* ------------------------------------------------------------- JSON
\* the values of a JSON document: null, a string (tag and v are its text, a Python
\* str), a number (v) and the object of a metadata mapping (tag)
JsonNull == [type |-> "null", tag |-> "", v |-> 0]

JsonString(s) == [type |-> "string", tag |-> s.tag, v |-> s.v]

JsonNumber(n) == [type |-> "number", tag |-> "", v |-> n]

JsonObject(metadata) == [type |-> "object", tag |-> metadata, v |-> 0]

\* json.dump of the value a record holds under key
JsonDumpField(key, value) ==
    IF key = "failed_attempts" THEN JsonNumber(value)
    ELSE IF key = "metadata" THEN JsonObject(value)
    ELSE IF value = NoneValue THEN JsonNull
    ELSE JsonString(value)

\* mutant: a dump that leaves out the members whose value is None
JsonDumpRecord_SkipNone(info) ==
    [key \in {k \in DOMAIN info : k \in {"failed_attempts", "metadata"} \/ info[k] # NoneValue}
        |-> JsonDumpField(key, info[key])]

\* json.dump of one record
JsonDumpRecord(info) == [key \in DOMAIN info |-> JsonDumpField(key, info[key])]

\* json.load of one value: the JSON type alone decides the Python value
JsonLoadValue(j) ==
    IF j.type = "null" THEN NoneValue
    ELSE IF j.type = "string" THEN [tag |-> j.tag, v |-> j.v]
    ELSE IF j.type = "number" THEN j.v
    ELSE j.tag

\* json.load of one record
JsonLoadRecord(obj) == [key \in DOMAIN obj |-> JsonLoadValue(obj[key])]

\* ------------------------------------------------------------ state
VARIABLES
    url_data,   \* self.url_data: url -> record
    url_keys,   \* the insertion order of the keys of self.url_data
    now,        \* the value the last datetime.now() call returned
    file,       \* the backing file at self.url_list_path
    op,         \* the name of the last method called on the manager
    raised,     \* the exception that call raised, NoException when it returned
    created,    \* history: the first_seen each url got when it was first created
    calls,      \* history: the number of calls made on the manager since its construction
    cycles,     \* history: per url, n: the reconciliations since the creation or last
                \* success of its record (FailedThreshold standing for that many or
                \* more), open: no crawl of it was reported since the last reconciliation
    self,       \* the manager instance whose attributes url_data and url_keys are
    instances,  \* the attributes of the other manager instances on the same path
    open,       \* per instance: it has loaded and not yet saved (its cycle is under way)
    added,      \* history: the urls added in some cycle and not removed by a cleanup
    overlapped, \* history: some cycle loaded while the cycle of another instance was open
    events,     \* history: per url, the reconciliations that missed it and the crawls
                \* of it reported as failed since its record was created or last
                \* reported as crawled with success
    plan,       \* the caller's copy of the list its last get_urls_to_crawl() returned
    abandoned,  \* the urls no discovery will name again (what the callers will do)
    list_file,       \* announcements_list.json (ANNOUNCEMENTS_LIST_PATH)
    stage,           \* AnnouncementListPipeline: "closed", or "open" between open_spider
                     \* and close_spider
    existing_data,   \* AnnouncementListPipeline.existing_data
    existing_links,  \* AnnouncementListPipeline.existing_links
    collected_items, \* AnnouncementListPipeline.collected_items
    requested_urls,  \* AnnouncementsListSpider.requested_urls
    requests         \* history: the requests the spider has yielded, per url: how many,
                     \* and the callback and language of the first

\* the instances that share the path
shared_vars == <<self, instances, open, added, overlapped>>

\* what is outside the one manager of the sequential specifications
\* the pipeline of the announcement-list spider and its file
pipeline_vars == <<list_file, stage, existing_data, existing_links, collected_items>>

\* the announcement-list spider
spider_vars == <<requested_urls, requests>>

outside == <<shared_vars, events, plan, abandoned, pipeline_vars, spider_vars>>

vars == <<url_data, url_keys, now, file, op, raised, created, calls, cycles, outside>>

NoException == "none"

\* no reconciliation yet, and no crawl to report
NoCycle == [n |-> 0, open |-> FALSE]

\* no file at url_list_path
MissingFile ==
    [kind |-> "missing", last_updated |-> JsonNull, url_count |-> 0,
     urls |-> [u \in {} |-> NoneValue], keys |-> <<>>]

\* info.get("failed_attempts", 0)
GetFailedAttempts(info) ==
    IF "failed_attempts" \in DOMAIN info THEN info.failed_attempts ELSE 0

\* info.get("last_seen", "")
GetLastSeen(info) ==
    IF "last_seen" \in DOMAIN info THEN info.last_seen ELSE EmptyString

\* metadata or {}
MetadataOrEmpty(metadata) ==
    IF metadata \in {MetaNone, MetaEmpty} THEN MetaEmpty ELSE metadata

\* info[key] = value: the key is added when the dict does not have it
SetItem(info, key, value) ==
    IF key \in DOMAIN info THEN [info EXCEPT ![key] = value]
    ELSE [k \in DOMAIN info \cup {key} |-> IF k = key THEN value ELSE info[k]]

Store(data, keys, clk) == [data |-> data, keys |-> keys, now |-> clk]

\* the dict literal of add_url: first_seen is evaluated (read) before last_seen
NewRecord(t1, t2, metadata) ==
    [first_seen |-> Isoformat(t1), last_seen |-> Isoformat(t2),
     last_crawled |-> NoneValue, failed_attempts |-> 0,
     metadata |-> MetadataOrEmpty(metadata)]

\* mutants: a re-add that starts the record over, or that stamps first_seen as well
SeenAgain_Reset(info, t) ==
    [info EXCEPT !.last_seen = Isoformat(t), !.failed_attempts = 0]

SeenAgain_Touch(info, t) ==
    [info EXCEPT !.last_seen = Isoformat(t), !.first_seen = Isoformat(t)]

\* mutant: a re-add that empties the metadata
SeenAgain_ForgetsMetadata(info, t) ==
    [info EXCEPT !.last_seen = Isoformat(t), !.metadata = MetaEmpty]

\* the else branch of add_url
SeenAgain(info, t) == SetItem(info, "last_seen", Isoformat(t))

\* add_url on the store s: the stores it may leave, one per outcome of its clock reads
AddUrlOutcomes(s, url, metadata) ==
    IF url \notin DOMAIN s.data
    THEN UNION { { Store([u \in DOMAIN s.data \cup {url} |->
                            IF u = url THEN NewRecord(t1, t2, metadata) ELSE s.data[u]],
                         Append(s.keys, url), t2)
                   : t2 \in ClockReads(t1) }
                 : t1 \in ClockReads(s.now) }
    ELSE { Store([s.data EXCEPT ![url] = SeenAgain(s.data[url], t)], s.keys, t)
           : t \in ClockReads(s.now) }

\* no announcements_list.json
NoListFile == [kind |-> "missing", items |-> <<>>]

\* no spider runs, and there is no list file
NoRun ==
    /\ list_file = NoListFile
    /\ stage = "closed"
    /\ existing_data = <<>>
    /\ existing_links = {}
    /\ collected_items = <<>>

\* no spider was constructed
NoSpider ==
    /\ requested_urls = {}
    /\ requests = [url \in {} |-> NoneValue]

\* no failure was counted for a url
NoEvents == [missed |-> 0, failed |-> 0]

\* the processes that may hold a manager on the path
Managers == {1, 2}

\* self.url_data of an instance (and the order of its keys)
Attributes(data, keys) == [data |-> data, keys |-> keys]

\* no instance has loaded anything yet, and instance 1 is the one at hand
Alone ==
    /\ self = 1
    /\ instances = [i \in Managers \ {1} |-> Attributes([u \in {} |-> NoneValue], <<>>)]
    /\ open = [i \in Managers |-> FALSE]
    /\ added = {}
    /\ overlapped = FALSE

\* __init__ on a path where no file exists: load() starts fresh
Init ==
    /\ url_data = [u \in {} |-> NoneValue]
    /\ url_keys = <<>>
    /\ now = 0
    /\ file = MissingFile
    /\ op = "__init__"
    /\ raised = NoException
    /\ created = [u \in URLs |-> NoneValue]
    /\ calls = 0
    /\ cycles = [u \in URLs |-> NoCycle]
    /\ Alone
    /\ events = [u \in URLs |-> NoEvents]
    /\ plan = <<>>
    /\ abandoned = {}
    /\ NoRun
    /\ NoSpider

add_url(url, metadata) ==
    /\ op' = "add_url"
    /\ raised' = NoException
    /\ \E s \in AddUrlOutcomes(Store(url_data, url_keys, now), url, metadata) :
        /\ url_data' = s.data
        /\ url_keys' = s.keys
        /\ now' = s.now
    /\ UNCHANGED file

\* mutant: a crawl that counts as a sighting
Crawled_Seen(info, t, success) ==
    [info EXCEPT !.last_crawled = Isoformat(t), !.last_seen = Isoformat(t),
                 !.failed_attempts = IF success THEN 0 ELSE GetFailedAttempts(info) + 1]

\* mutant: a successful crawl that leaves the counter alone
Crawled_NoReset(info, t, success) ==
    [info EXCEPT !.last_crawled = Isoformat(t),
                 !.failed_attempts = GetFailedAttempts(info) + (IF success THEN 0 ELSE 1)]

\* the record mark_crawled leaves for a known url
Crawled(info, t, success) ==
    SetItem(SetItem(info, "last_crawled", Isoformat(t)),
            "failed_attempts", IF success THEN 0 ELSE GetFailedAttempts(info) + 1)

\* mutant: mark_crawled that creates the record of a url it does not know
mark_crawled_Creates(url, success) ==
    /\ op' = "mark_crawled"
    /\ raised' = NoException
    /\ url \in DOMAIN url_data => success \/ GetFailedAttempts(url_data[url]) < MaxFailed
    /\ \E t \in ClockReads(now) :
        /\ url_data' = [u \in DOMAIN url_data \cup {url} |->
               IF u = url
               THEN Crawled(IF url \in DOMAIN url_data THEN url_data[url]
                            ELSE NewRecord(t, t, MetaNone), t, success)
               ELSE url_data[u]]
        /\ url_keys' = (IF url \in DOMAIN url_data THEN url_keys ELSE Append(url_keys, url))
        /\ now' = t
    /\ UNCHANGED file

\* mark_crawled(url, success): nothing happens, and no clock is read, for an unknown url
mark_crawled(url, success) ==
    /\ op' = "mark_crawled"
    /\ raised' = NoException
    /\ url \in DOMAIN url_data => success \/ GetFailedAttempts(url_data[url]) < MaxFailed
    /\ IF url \in DOMAIN url_data
       THEN \E t \in ClockReads(now) :
                /\ url_data' = [url_data EXCEPT ![url] = Crawled(url_data[url], t, success)]
                /\ now' = t
       ELSE UNCHANGED <<url_data, now>>
    /\ UNCHANGED <<url_keys, file>>

\* mutant: a record is skipped one failure early
Skipped_Early(info) == GetFailedAttempts(info) >= FailedThreshold - 1

\* mutant: the threshold itself is still crawled
Skipped_Above(info) == GetFailedAttempts(info) > FailedThreshold

\* the test of get_urls_to_crawl that skips a record
Skipped(info) == GetFailedAttempts(info) >= FailedThreshold

\* what get_urls_to_crawl() returns in the current state
UrlsToCrawl ==
    Sorted(SelectSeq(url_keys, LAMBDA url : ~Skipped(url_data[url])))

\* mutant: a selector that drops the records it skips from the store
get_urls_to_crawl_Prunes ==
    /\ op' = "get_urls_to_crawl"
    /\ raised' = NoException
    /\ url_data' = [url \in {u \in DOMAIN url_data : ~Skipped(url_data[u])} |-> url_data[url]]
    /\ url_keys' = SelectSeq(url_keys, LAMBDA url : ~Skipped(url_data[url]))
    /\ UNCHANGED <<now, file>>

get_urls_to_crawl ==
    /\ op' = "get_urls_to_crawl"
    /\ raised' = NoException
    /\ UNCHANGED <<url_data, url_keys, now, file>>

\* mutant: a record whose last_seen does not parse is removed as stale
Stale_Unparsable(info, cutoff_date) ==
    \/ FromIsoformatRaises(GetLastSeen(info))
    \/ FromIsoformat(GetLastSeen(info)) < cutoff_date

\* mutant: a record seen exactly at the cutoff is removed too
Stale_Inclusive(info, cutoff_date) ==
    /\ ~FromIsoformatRaises(GetLastSeen(info))
    /\ FromIsoformat(GetLastSeen(info)) <= cutoff_date

\* the test of cleanup_old_urls: a record whose last_seen does not parse is kept
Stale(info, cutoff_date) ==
    /\ ~FromIsoformatRaises(GetLastSeen(info))
    /\ FromIsoformat(GetLastSeen(info)) < cutoff_date

cleanup_old_urls(days) ==
    /\ op' = "cleanup_old_urls"
    /\ raised' = NoException
    /\ \E t \in ClockReads(now) :
        LET urls_to_remove ==
                {url \in DOMAIN url_data : Stale(url_data[url], t - TimedeltaDays(days))}
        IN /\ url_data' = [url \in DOMAIN url_data \ urls_to_remove |-> url_data[url]]
           /\ url_keys' = SelectSeq(url_keys, LAMBDA url : url \notin urls_to_remove)
           /\ now' = t
    /\ UNCHANGED file

\* the first loop of update_from_full_crawl: add_url(url) for every url of the set,
\* in whatever order the set is iterated
RECURSIVE AddAllOutcomes(_, _)
AddAllOutcomes(s, urls) ==
    IF urls = {} THEN {s}
    ELSE UNION { UNION { AddAllOutcomes(s2, urls \ {url})
                         : s2 \in AddUrlOutcomes(s, url, MetaNone) }
                 : url \in urls }

\* mutants: every record is counted as missing; a rediscovered record starts over;
\* a missing record that reaches the threshold is dropped
IncrementMissing_All(data, discovered_urls) ==
    [url \in DOMAIN data |->
        [data[url] EXCEPT !.failed_attempts = GetFailedAttempts(data[url]) + 1]]

IncrementMissing_ResetsFound(data, discovered_urls) ==
    [url \in DOMAIN data |->
        IF url \in discovered_urls
        THEN [data[url] EXCEPT !.failed_attempts = 0]
        ELSE [data[url] EXCEPT !.failed_attempts = GetFailedAttempts(data[url]) + 1]]

IncrementMissing_Drops(data, discovered_urls) ==
    [url \in {u \in DOMAIN data : u \in discovered_urls
                                  \/ GetFailedAttempts(data[u]) + 1 < FailedThreshold} |->
        IF url \in discovered_urls THEN data[url]
        ELSE [data[url] EXCEPT !.failed_attempts = GetFailedAttempts(data[url]) + 1]]

\* mutant: a record already at the threshold is not counted any further
IncrementMissing_Capped(data, discovered_urls) ==
    [url \in DOMAIN data |->
        IF url \notin discovered_urls /\ GetFailedAttempts(data[url]) < FailedThreshold
        THEN [data[url] EXCEPT !.failed_attempts = GetFailedAttempts(data[url]) + 1]
        ELSE data[url]]

\* the second loop of update_from_full_crawl, on the mapping the first loop left
IncrementMissing(data, discovered_urls) ==
    LET missing_urls == DOMAIN data \ discovered_urls IN
    [url \in DOMAIN data |->
        IF url \in missing_urls
        THEN SetItem(data[url], "failed_attempts", GetFailedAttempts(data[url]) + 1)
        ELSE data[url]]

\* update_from_full_crawl on the store s: the stores it may leave
UpdateFromFullCrawlOutcomes(s, discovered_urls) ==
    { Store(IncrementMissing(s2.data, discovered_urls), s2.keys, s2.now)
      : s2 \in AddAllOutcomes(s, discovered_urls) }

update_from_full_crawl(discovered_urls) ==
    /\ op' = "update_from_full_crawl"
    /\ raised' = NoException
    /\ \A url \in DOMAIN url_data \ discovered_urls :
           GetFailedAttempts(url_data[url]) < MaxFailed
    /\ \E s \in UpdateFromFullCrawlOutcomes(Store(url_data, url_keys, now), discovered_urls) :
        /\ url_data' = s.data
        /\ url_keys' = s.keys
        /\ now' = s.now
    /\ UNCHANGED file

\* info.get("last_crawled")
GetLastCrawled(info) ==
    IF "last_crawled" \in DOMAIN info THEN info.last_crawled ELSE NoneValue

\* the truth value of a timestamp field: None and "" are false
Truthy(s) == s # NoneValue /\ s # EmptyString

\* mutant: a last_crawled exactly 24 hours old still counts as recent
Recent_Inclusive(info, t) == FromIsoformat(info.last_crawled) >= t - TimedeltaHours(RecentHours)

\* the comparison of line 163, t being the value datetime.now() returns there
Recent(info, t) == FromIsoformat(info.last_crawled) > t - TimedeltaHours(RecentHours)

\* the generator of recently_crawled over the records from position i on: the counts
\* it may reach, datetime.now() being read once for every record whose last_crawled
\* is true and parses; fromisoformat is evaluated first and its ValueError is not caught
RECURSIVE RecentlyCrawledOutcomes(_, _)
RecentlyCrawledOutcomes(i, clk) ==
    IF i > Len(url_keys) THEN {[count |-> 0, now |-> clk, raised |-> NoException]}
    ELSE LET info == url_data[url_keys[i]] IN
         IF ~Truthy(GetLastCrawled(info))
         THEN RecentlyCrawledOutcomes(i + 1, clk)
         ELSE IF FromIsoformatRaises(info.last_crawled)
         THEN {[count |-> 0, now |-> clk, raised |-> "ValueError"]}
         ELSE UNION { { [count |-> IF r.raised # NoException THEN 0
                                   ELSE r.count + (IF Recent(info, t) THEN 1 ELSE 0),
                         now |-> r.now, raised |-> r.raised]
                        : r \in RecentlyCrawledOutcomes(i + 1, t) }
                      : t \in ClockReads(clk) }

\* what get_statistics() may return in the current state, with the clock it leaves
Statistics ==
    LET total == Cardinality(DOMAIN url_data)
        failed == Cardinality({url \in DOMAIN url_data :
                      GetFailedAttempts(url_data[url]) >= FailedThreshold})
    IN { [total_urls |-> total, active_urls |-> total - failed, failed_urls |-> failed,
          recently_crawled |-> r.count, now |-> r.now]
         : r \in {x \in RecentlyCrawledOutcomes(1, now) : x.raised = NoException} }

\* get_statistics(): it returns one of Statistics or raises out of the generator
get_statistics ==
    /\ op' = "get_statistics"
    /\ \E r \in RecentlyCrawledOutcomes(1, now) :
        /\ now' = r.now
        /\ raised' = r.raised
    /\ UNCHANGED <<url_data, url_keys, file>>

\* mutant: a dump without sort_keys, the keys in the order of the dict
save_Unsorted ==
    /\ op' = "save"
    /\ raised' = NoException
    /\ \E t \in ClockReads(now) :
        /\ file' = [kind |-> "json", last_updated |-> JsonString(Isoformat(t)),
                    url_count |-> Len(url_keys),
                    urls |-> [url \in DOMAIN url_data |-> JsonDumpRecord(url_data[url])],
                    keys |-> url_keys]
        /\ now' = t
    /\ UNCHANGED <<url_data, url_keys>>

\* save(): the document json.dump writes, its keys sorted
save ==
    /\ op' = "save"
    /\ raised' = NoException
    /\ \E t \in ClockReads(now) :
        /\ file' = [kind |-> "json", last_updated |-> JsonString(Isoformat(t)),
                    url_count |-> Len(url_keys),
                    urls |-> [url \in DOMAIN url_data |-> JsonDumpRecord(url_data[url])],
                    keys |-> Sorted(url_keys)]
        /\ now' = t
    /\ UNCHANGED <<url_data, url_keys>>

\* the document of save() holds a character outside ASCII, which ensure_ascii=False
\* writes as several bytes
NonAscii(data) ==
    \E url \in DOMAIN data : "metadata" \in DOMAIN data[url] /\ data[url].metadata = MetaDept

\* what is left of the file when the write of save() stops between open(.., "w"),
\* which empties the file, and the end of json.dump: a proper prefix of the document,
\* which is no JSON, and which is no UTF-8 either when it ends inside a character
CutDocuments(data) ==
    {[MissingFile EXCEPT !.kind = kind] :
        kind \in {"text"} \cup (IF NonAscii(data) THEN {"bytes"} ELSE {})}

Interrupted == "Interrupted"

\* save() that does not get to the end of line 55: the process is ended, or the
\* write fails, after the clock was read and the file was opened
save_Interrupted ==
    /\ op' = "save"
    /\ raised' = Interrupted
    /\ \E t \in ClockReads(now) : now' = t
    /\ file' \in CutDocuments(url_data)
    /\ UNCHANGED <<url_data, url_keys>>

\* the exception that escapes load(): the bytes of the file are not UTF-8
\* (UnicodeDecodeError is a ValueError but no JSONDecodeError), or the top level of
\* the document is not an object and has no get()
LoadRaises(f) ==
    IF f.kind = "bytes" THEN "UnicodeDecodeError"
    ELSE IF f.kind = "array" THEN "AttributeError"
    ELSE NoException

\* mutant: a load that starts from the empty mapping whatever the file holds
load_Fresh ==
    /\ op' = "load"
    /\ raised' = LoadRaises(file)
    /\ url_data' = [u \in {} |-> NoneValue]
    /\ url_keys' = <<>>
    /\ UNCHANGED <<now, file>>

\* load(): a missing file, text that is no JSON and an object without "urls" give
\* the empty mapping; otherwise the mapping is the "urls" member, in the file's order
load ==
    /\ op' = "load"
    /\ raised' = LoadRaises(file)
    /\ IF LoadRaises(file) # NoException
       THEN UNCHANGED <<url_data, url_keys>>
       ELSE IF file.kind = "json"
       THEN /\ url_data' = [url \in DOMAIN file.urls |-> JsonLoadRecord(file.urls[url])]
            /\ url_keys' = file.keys
       ELSE /\ url_data' = [u \in {} |-> NoneValue]
            /\ url_keys' = <<>>
    /\ UNCHANGED <<now, file>>

\* the history of first creations, kept along a step
Remember ==
    created' = [u \in URLs |->
                   IF created[u] = NoneValue /\ u \in DOMAIN url_data'
                   THEN url_data'[u].first_seen ELSE created[u]]

\* the calls that work on the mapping in memory, in any order
Next ==
    \/ \E url \in URLs, metadata \in MetadataArgs : add_url(url, metadata) /\ UNCHANGED <<created, calls, cycles>> /\ UNCHANGED outside
    \/ \E url \in URLs, success \in BOOLEAN : mark_crawled(url, success) /\ UNCHANGED <<created, calls, cycles>> /\ UNCHANGED outside
    \/ get_urls_to_crawl /\ UNCHANGED <<created, calls, cycles>> /\ UNCHANGED outside
    \/ \E days \in Days : cleanup_old_urls(days) /\ UNCHANGED <<created, calls, cycles>> /\ UNCHANGED outside
    \/ \E discovered_urls \in SUBSET URLs : update_from_full_crawl(discovered_urls) /\ UNCHANGED <<created, calls, cycles>> /\ UNCHANGED outside
    \/ get_statistics /\ UNCHANGED <<created, calls, cycles>> /\ UNCHANGED outside

Spec == Init /\ [][Next]_vars

\* the same calls, with the history of first creations kept
NextHist ==
    \/ \E url \in URLs, metadata \in MetadataArgs : add_url(url, metadata) /\ Remember /\ UNCHANGED <<calls, cycles>> /\ UNCHANGED outside
    \/ \E url \in URLs, success \in BOOLEAN : mark_crawled(url, success) /\ Remember /\ UNCHANGED <<calls, cycles>> /\ UNCHANGED outside
    \/ get_urls_to_crawl /\ Remember /\ UNCHANGED <<calls, cycles>> /\ UNCHANGED outside
    \/ \E days \in Days : cleanup_old_urls(days) /\ Remember /\ UNCHANGED <<calls, cycles>> /\ UNCHANGED outside
    \/ \E discovered_urls \in SUBSET URLs : update_from_full_crawl(discovered_urls) /\ Remember /\ UNCHANGED <<calls, cycles>> /\ UNCHANGED outside
    \/ get_statistics /\ Remember /\ UNCHANGED <<calls, cycles>> /\ UNCHANGED outside

SpecHist == Init /\ [][NextHist]_vars

\* one load -> mutate -> save cycle of a process: it ends with its save()
NextCycle ==
    \/ \E url \in URLs, metadata \in MetadataArgs : op # "save" /\ add_url(url, metadata) /\ UNCHANGED <<created, calls, cycles>> /\ UNCHANGED outside
    \/ \E url \in URLs, success \in BOOLEAN : op # "save" /\ mark_crawled(url, success) /\ UNCHANGED <<created, calls, cycles>> /\ UNCHANGED outside
    \/ op # "save" /\ get_urls_to_crawl /\ UNCHANGED <<created, calls, cycles>> /\ UNCHANGED outside
    \/ \E days \in Days : op # "save" /\ cleanup_old_urls(days) /\ UNCHANGED <<created, calls, cycles>> /\ UNCHANGED outside
    \/ \E discovered_urls \in SUBSET URLs : op # "save" /\ update_from_full_crawl(discovered_urls) /\ UNCHANGED <<created, calls, cycles>> /\ UNCHANGED outside
    \/ op # "save" /\ get_statistics /\ UNCHANGED <<created, calls, cycles>> /\ UNCHANGED outside
    \/ op # "save" /\ save /\ UNCHANGED <<created, calls, cycles>> /\ UNCHANGED outside

SpecCycle == Init /\ [][NextCycle]_vars

\* the cycle, and after its save() the load() of a manager on the same path
NextRoundTrip ==
    \/ \E url \in URLs, metadata \in MetadataArgs : op \notin {"save", "load"} /\ add_url(url, metadata) /\ UNCHANGED <<created, calls, cycles>> /\ UNCHANGED outside
    \/ \E url \in URLs, success \in BOOLEAN : op \notin {"save", "load"} /\ mark_crawled(url, success) /\ UNCHANGED <<created, calls, cycles>> /\ UNCHANGED outside
    \/ op \notin {"save", "load"} /\ get_urls_to_crawl /\ UNCHANGED <<created, calls, cycles>> /\ UNCHANGED outside
    \/ \E days \in Days : op \notin {"save", "load"} /\ cleanup_old_urls(days) /\ UNCHANGED <<created, calls, cycles>> /\ UNCHANGED outside
    \/ \E discovered_urls \in SUBSET URLs : op \notin {"save", "load"} /\ update_from_full_crawl(discovered_urls) /\ UNCHANGED <<created, calls, cycles>> /\ UNCHANGED outside
    \/ op \notin {"save", "load"} /\ get_statistics /\ UNCHANGED <<created, calls, cycles>> /\ UNCHANGED outside
    \/ op \notin {"save", "load"} /\ save /\ UNCHANGED <<created, calls, cycles>> /\ UNCHANGED outside
    \/ op = "save" /\ load /\ UNCHANGED <<created, calls, cycles>> /\ UNCHANGED outside

SpecRoundTrip == Init /\ [][NextRoundTrip]_vars

\* ------------------------------------------------- a file of any content
\* a record as save() writes it, seen and created at 0
WrittenRecord(failed) ==
    [first_seen |-> JsonString(Isoformat(0)), last_seen |-> JsonString(Isoformat(0)),
     last_crawled |-> JsonNull, failed_attempts |-> JsonNumber(failed),
     metadata |-> JsonObject(MetaEmpty)]

\* the objects a document may hold for a url: written records, and records whose
\* last_seen or last_crawled is null, empty, no timestamp, or missing
FileRecords ==
    { WrittenRecord(0),
      [WrittenRecord(FailedThreshold) EXCEPT !.last_crawled = JsonString(Isoformat(0))],
      [WrittenRecord(0) EXCEPT !.last_seen = JsonNull],
      [WrittenRecord(0) EXCEPT !.last_seen = JsonString(Garbage)],
      [WrittenRecord(0) EXCEPT !.last_crawled = JsonString(Garbage)],
      [WrittenRecord(0) EXCEPT !.last_crawled = JsonString(EmptyString)],
      [key \in {"first_seen", "metadata"} |-> WrittenRecord(0)[key]] }

\* the orders in which a document may list its urls
FileKeys ==
    {<<>>} \cup {<<u>> : u \in URLs} \cup {<<u, w>> : <<u, w>> \in {p \in URLs \X URLs : p[1] # p[2]}}

\* what may be at url_list_path: nothing, bytes that are not UTF-8 (a file cut
\* inside a character), text that is no JSON, JSON whose top level is no object,
\* an object without "urls", and an object whose "urls" maps urls to objects
FileContents ==
    {[MissingFile EXCEPT !.kind = kind] : kind \in {"missing", "bytes", "text", "array", "no_urls"}}
    \cup
    UNION { { [kind |-> "json", last_updated |-> JsonString(Isoformat(0)),
               url_count |-> Len(keys), urls |-> urls, keys |-> keys]
              : urls \in [{keys[i] : i \in 1..Len(keys)} -> FileRecords] }
            : keys \in FileKeys }

\* __init__ has run lines 28 and 29, its call of load() is next
Constructing == "__init__ line 30"

InitLoad ==
    /\ url_data = [u \in {} |-> NoneValue]
    /\ url_keys = <<>>
    /\ now = 0
    /\ file \in FileContents
    /\ op = Constructing
    /\ raised = NoException
    /\ created = [u \in URLs |-> NoneValue]
    /\ calls = 0
    /\ cycles = [u \in URLs |-> NoCycle]
    /\ Alone
    /\ events = [u \in URLs |-> NoEvents]
    /\ plan = <<>>
    /\ abandoned = {}
    /\ NoRun
    /\ NoSpider

\* there is a manager to call (its constructor returned), and calls are left
Constructed ==
    /\ op # Constructing
    /\ ~(calls = 0 /\ raised # NoException)
    /\ calls < MaxCalls

Called == calls' = calls + 1 /\ UNCHANGED <<created, cycles>>

\* a manager constructed on a file of any content, and the calls made on it
NextLoad ==
    \/ op = Constructing /\ load /\ UNCHANGED <<created, calls, cycles>> /\ UNCHANGED outside
    \/ \E url \in URLs, metadata \in MetadataArgs : Constructed /\ add_url(url, metadata) /\ Called /\ UNCHANGED outside
    \/ \E url \in URLs, success \in BOOLEAN : Constructed /\ mark_crawled(url, success) /\ Called /\ UNCHANGED outside
    \/ Constructed /\ get_urls_to_crawl /\ Called /\ UNCHANGED outside
    \/ \E days \in Days : Constructed /\ cleanup_old_urls(days) /\ Called /\ UNCHANGED outside
    \/ \E discovered_urls \in SUBSET URLs : Constructed /\ update_from_full_crawl(discovered_urls) /\ Called /\ UNCHANGED outside
    \/ Constructed /\ get_statistics /\ Called /\ UNCHANGED outside
    \/ Constructed /\ save /\ Called /\ UNCHANGED outside
    \/ Constructed /\ load /\ Called /\ UNCHANGED outside

SpecLoad == InitLoad /\ [][NextLoad]_vars

\* ------------------------------------------ observation / fetch cycles
\* a reconciliation starts a cycle for every url, and counts for the records it leaves
Observed ==
    cycles' = [u \in URLs |->
                  [n |-> IF u \notin DOMAIN url_data' THEN 0
                         ELSE IF cycles[u].n < FailedThreshold THEN cycles[u].n + 1
                         ELSE FailedThreshold,
                   open |-> TRUE]]

\* a record created by add_url while its crawl is still to come is in its first cycle
Seen(url) ==
    cycles' = IF url \notin DOMAIN url_data /\ cycles[url].open
              THEN [cycles EXCEPT ![url] = [n |-> 1, open |-> TRUE]]
              ELSE cycles

\* the one crawl of url in its cycle was reported: a success starts the count again
Fetched(url, success) ==
    cycles' = [cycles EXCEPT ![url] = [n |-> IF success THEN 0 ELSE cycles[url].n,
                                       open |-> FALSE]]

\* the records a cleanup removed start again when they are created again
Forgotten ==
    cycles' = [u \in URLs |->
                  IF u \in DOMAIN url_data' THEN cycles[u]
                  ELSE [cycles[u] EXCEPT !.n = 0]]

\* the url whose cycles are followed
Followed == {<<122>>}

\* the calls of a run made of cycles: each cycle is one update_from_full_crawl and
\* then at most one mark_crawled for each url
NextObservation ==
    \/ \E url \in Followed, metadata \in MetadataArgs : add_url(url, metadata) /\ Seen(url) /\ UNCHANGED <<created, calls>> /\ UNCHANGED outside
    \/ \E url \in Followed, success \in BOOLEAN : cycles[url].open /\ mark_crawled(url, success) /\ Fetched(url, success) /\ UNCHANGED <<created, calls>> /\ UNCHANGED outside
    \/ get_urls_to_crawl /\ UNCHANGED <<created, calls, cycles>> /\ UNCHANGED outside
    \/ \E days \in Days : cleanup_old_urls(days) /\ Forgotten /\ UNCHANGED <<created, calls>> /\ UNCHANGED outside
    \/ \E discovered_urls \in SUBSET Followed : update_from_full_crawl(discovered_urls) /\ Observed /\ UNCHANGED <<created, calls>> /\ UNCHANGED outside

SpecObservation == Init /\ [][NextObservation]_vars

\* ------------------------------------- several instances on one path
\* another process gets to run: url_data and url_keys are from now on the attributes
\* of instance i, those of the instance that ran before are kept in instances
Switch(i) ==
    /\ i # self
    /\ self' = i
    /\ instances' = [j \in Managers \ {i} |->
                         IF j = self THEN Attributes(url_data, url_keys) ELSE instances[j]]
    /\ url_data' = instances[i].data
    /\ url_keys' = instances[i].keys
    /\ UNCHANGED <<now, file, op, raised, open, added, overlapped>>

\* the load() that starts a cycle of the instance at hand (that of its constructor,
\* or a later one); it overlaps when the cycle of another instance is under way
BeginCycle ==
    /\ ~open[self]
    /\ load
    /\ open' = [open EXCEPT ![self] = TRUE]
    /\ overlapped' = (overlapped \/ \E j \in Managers \ {self} : open[j])
    /\ UNCHANGED <<self, instances, added>>

\* the urls a call of the cycle added are remembered, those it removed are forgotten
Mutated ==
    /\ added' = (added \cup (DOMAIN url_data' \ DOMAIN url_data))
                     \ (DOMAIN url_data \ DOMAIN url_data')
    /\ UNCHANGED <<self, instances, open, overlapped>>

\* the save() that ends the cycle of the instance at hand
EndCycle ==
    /\ open[self]
    /\ save
    /\ open' = [open EXCEPT ![self] = FALSE]
    /\ UNCHANGED <<self, instances, added, overlapped>>

\* the load -> mutate -> save cycles of the instances, interleaved in any way; no
\* call takes a lock on the file
NextShared ==
    \/ \E i \in Managers : Switch(i) /\ UNCHANGED <<created, calls, cycles, events, plan, abandoned, pipeline_vars, spider_vars>>
    \/ BeginCycle /\ UNCHANGED <<created, calls, cycles, events, plan, abandoned, pipeline_vars, spider_vars>>
    \/ \E url \in URLs : open[self] /\ add_url(url, MetaNone) /\ Mutated /\ UNCHANGED <<created, calls, cycles, events, plan, abandoned, pipeline_vars, spider_vars>>
    \/ \E days \in Days : open[self] /\ cleanup_old_urls(days) /\ Mutated /\ UNCHANGED <<created, calls, cycles, events, plan, abandoned, pipeline_vars, spider_vars>>
    \/ EndCycle /\ UNCHANGED <<created, calls, cycles, events, plan, abandoned, pipeline_vars, spider_vars>>

SpecShared == Init /\ [][NextShared]_vars

\* ------------------------------------------------ a save() cut short
\* the process holds a manager: its last call returned
Running == raised = NoException

\* a process adds urls, reports crawls and saves; a save() may be cut short, and
\* then the next thing to happen on the path is the load() of a new manager
NextCrash ==
    \/ \E url \in URLs, metadata \in MetadataArgs : Running /\ add_url(url, metadata) /\ UNCHANGED <<created, calls, cycles>> /\ UNCHANGED outside
    \/ \E url \in URLs : Running /\ mark_crawled(url, TRUE) /\ UNCHANGED <<created, calls, cycles>> /\ UNCHANGED outside
    \/ Running /\ save /\ UNCHANGED <<created, calls, cycles>> /\ UNCHANGED outside
    \/ Running /\ file.kind = "json" /\ save_Interrupted /\ UNCHANGED <<created, calls, cycles>> /\ UNCHANGED outside
    \/ op = "save" /\ load /\ UNCHANGED <<created, calls, cycles>> /\ UNCHANGED outside

SpecCrash == Init /\ [][NextCrash]_vars

\* ------------------------------------------------- failure events
\* add_url(url, ..) was called: a record it creates has no failure yet
Added(url) ==
    events' = IF url \in DOMAIN url_data THEN events ELSE [events EXCEPT ![url] = NoEvents]

\* mark_crawled(url, success) was called: a failed crawl of a known url is a failure
\* event, a successful one starts the count again
Reported(url, success) ==
    events' = IF url \notin DOMAIN url_data THEN events
              ELSE IF success THEN [events EXCEPT ![url] = NoEvents]
              ELSE [events EXCEPT ![url].failed = @ + 1]

\* update_from_full_crawl(discovered_urls) was called: it is a failure event for
\* every known url the set omits, and a creation for every unknown url of the set
Reconciled(discovered_urls) ==
    events' = [u \in URLs |->
                  IF u \in DOMAIN url_data /\ u \notin discovered_urls
                  THEN [events[u] EXCEPT !.missed = @ + 1]
                  ELSE IF u \in discovered_urls /\ u \notin DOMAIN url_data THEN NoEvents
                  ELSE events[u]]

\* cleanup_old_urls was called: a removed record takes its events with it
Cleaned ==
    events' = [u \in URLs |-> IF u \in DOMAIN url_data' THEN events[u] ELSE NoEvents]

\* the calls that create, count and remove, with the failure events kept
NextEvents ==
    \/ \E url \in URLs : add_url(url, MetaNone) /\ Added(url) /\ UNCHANGED <<created, calls, cycles, shared_vars, plan, abandoned, pipeline_vars, spider_vars>>
    \/ \E url \in URLs, success \in BOOLEAN : mark_crawled(url, success) /\ Reported(url, success) /\ UNCHANGED <<created, calls, cycles, shared_vars, plan, abandoned, pipeline_vars, spider_vars>>
    \/ \E days \in Days : cleanup_old_urls(days) /\ Cleaned /\ UNCHANGED <<created, calls, cycles, shared_vars, plan, abandoned, pipeline_vars, spider_vars>>
    \/ \E discovered_urls \in SUBSET URLs : update_from_full_crawl(discovered_urls) /\ Reconciled(discovered_urls) /\ UNCHANGED <<created, calls, cycles, shared_vars, plan, abandoned, pipeline_vars, spider_vars>>

SpecEvents == Init /\ [][NextEvents]_vars

\* ------------------------------------------- a caller that follows its plan
\* url is in the list the caller got from its last get_urls_to_crawl()
Planned(url) == \E i \in 1..Len(plan) : plan[i] = url

\* a caller that discovers, reconciles and cleans up as it likes, and reports crawls
\* only of the urls of the list its last get_urls_to_crawl() returned
NextPlan ==
    \/ \E url \in URLs : add_url(url, MetaNone) /\ UNCHANGED <<created, calls, cycles, shared_vars, events, plan, abandoned, pipeline_vars, spider_vars>>
    \/ \E url \in URLs, success \in BOOLEAN : Planned(url) /\ mark_crawled(url, success) /\ UNCHANGED <<created, calls, cycles, shared_vars, events, plan, abandoned, pipeline_vars, spider_vars>>
    \/ get_urls_to_crawl /\ plan' = UrlsToCrawl /\ UNCHANGED <<created, calls, cycles, shared_vars, events, abandoned, pipeline_vars, spider_vars>>
    \/ \E days \in Days : cleanup_old_urls(days) /\ UNCHANGED <<created, calls, cycles, shared_vars, events, plan, abandoned, pipeline_vars, spider_vars>>
    \/ \E discovered_urls \in SUBSET URLs : update_from_full_crawl(discovered_urls) /\ UNCHANGED <<created, calls, cycles, shared_vars, events, plan, abandoned, pipeline_vars, spider_vars>>

SpecPlan == Init /\ [][NextPlan]_vars

\* --------------------------------------------- urls that disappear
\* from now on no add_url and no discovered set names url
Abandon(url) ==
    /\ url \in DOMAIN url_data
    /\ url \notin abandoned
    /\ abandoned' = abandoned \cup {url}
    /\ UNCHANGED <<url_data, url_keys, now, file, op, raised>>

\* the calls of callers that never discover an abandoned url again, but go on
\* crawling it, reconciling and cleaning up
NextForgotten ==
    \/ \E url \in Followed : Abandon(url) /\ UNCHANGED <<created, calls, cycles, shared_vars, events, plan, pipeline_vars, spider_vars>>
    \/ \E url \in URLs \ abandoned : add_url(url, MetaNone) /\ UNCHANGED <<created, calls, cycles, outside>>
    \/ \E url \in URLs, success \in BOOLEAN : mark_crawled(url, success) /\ UNCHANGED <<created, calls, cycles, outside>>
    \/ \E days \in Days : cleanup_old_urls(days) /\ UNCHANGED <<created, calls, cycles, outside>>
    \/ \E discovered_urls \in SUBSET (URLs \ abandoned) : update_from_full_crawl(discovered_urls) /\ UNCHANGED <<created, calls, cycles, outside>>

\* some call reads a later clock value than the call before it
TimeAdvances == NextForgotten /\ now' > now

\* cleanup_old_urls(days) is called
CleanupCalled(days) == cleanup_old_urls(days) /\ UNCHANGED <<created, calls, cycles, outside>>

\* time keeps advancing (up to the bound of the clock) and cleanup_old_urls keeps
\* being called with every value of days
SpecForgotten ==
    /\ Init
    /\ [][NextForgotten]_vars
    /\ WF_vars(TimeAdvances)
    /\ \A days \in Days : WF_vars(CleanupCalled(days))

\* --------------------------------- the announcement-list pipeline
\* the manager plays no part in a run of the spider
manager_vars == <<url_data, url_keys, now, file, op, raised, created, calls, cycles>>

\* links ("a", "b", "c") and titles of announcement lists
Links == {<<97>>, <<98>>, <<99>>}

Titles == {"old", "new"}

\* an AnnouncementListItem as a dict; language and department go with the title
ListItem(link, title) == [link |-> link, title |-> title]

\* the custom sources: their links are "b" and "c"
CUSTOM_ANNOUNCEMENT_SOURCES ==
    <<ListItem(<<98>>, "custom"), ListItem(<<99>>, "custom")>>

\* json.dump / json.load of a list of dicts of strings: an array of objects whose
\* members are JSON strings
JsonDumpItems(items) ==
    [i \in 1..Len(items) |-> [k \in DOMAIN items[i] |-> [type |-> "string", text |-> items[i][k]]]]

JsonLoadItems(array) ==
    [i \in 1..Len(array) |-> [k \in DOMAIN array[i] |-> array[i][k].text]]

\* load_json(ANNOUNCEMENTS_LIST_PATH) or []: None for a missing file and for text
\* that is no JSON
LoadJsonOrEmpty(f) == IF f.kind = "json" THEN JsonLoadItems(f.items) ELSE <<>>

\* {item["link"] for item in items}
LinksOf(items) == {items[i].link : i \in 1..Len(items)}

\* list.sort(key=lambda x: x["link"]): stable, equal links keep their order
RECURSIVE InsertByLink(_, _)
InsertByLink(x, s) ==
    IF s = <<>> THEN <<x>>
    ELSE IF StrLess(x.link, Head(s).link) THEN <<x>> \o s
    ELSE <<Head(s)>> \o InsertByLink(x, Tail(s))

RECURSIVE SortedByLink(_)
SortedByLink(s) ==
    IF s = <<>> THEN <<>> ELSE InsertByLink(s[Len(s)], SortedByLink(SubSeq(s, 1, Len(s) - 1)))

\* the lists a file may hold before the first run: any two entries at most, in any
\* order, links repeated or not
InitialItems ==
    {<<>>} \cup {<<ListItem(l, "old")>> : l \in Links}
           \cup {<<ListItem(l1, "old"), ListItem(l2, t)>> : l1 \in Links, l2 \in Links, t \in {"old", "custom"}}

InitialListFiles ==
    {[kind |-> kind, items |-> <<>>] : kind \in {"missing", "text"}}
    \cup {[kind |-> "json", items |-> JsonDumpItems(items)] : items \in InitialItems}

InitPipeline ==
    /\ url_data = [u \in {} |-> NoneValue]
    /\ url_keys = <<>>
    /\ now = 0
    /\ file = MissingFile
    /\ op = "__init__"
    /\ raised = NoException
    /\ created = [u \in URLs |-> NoneValue]
    /\ calls = 0
    /\ cycles = [u \in URLs |-> NoCycle]
    /\ Alone
    /\ events = [u \in URLs |-> NoEvents]
    /\ plan = <<>>
    /\ abandoned = {}
    /\ list_file \in InitialListFiles
    /\ stage = "closed"
    /\ existing_data = <<>>
    /\ existing_links = {}
    /\ collected_items = <<>>
    /\ NoSpider

open_spider ==
    /\ stage = "closed"
    /\ stage' = "open"
    /\ collected_items' = <<>>
    /\ existing_data' = LoadJsonOrEmpty(list_file)
    /\ existing_links' = LinksOf(LoadJsonOrEmpty(list_file))
    /\ UNCHANGED list_file

\* mutant: every item is collected, known link or not
process_item_All(item) ==
    /\ stage = "open"
    /\ collected_items' = Append(collected_items, item)
    /\ existing_links' = existing_links \cup {item.link}
    /\ UNCHANGED <<list_file, stage, existing_data>>

\* process_item for an AnnouncementListItem
process_item(item) ==
    /\ stage = "open"
    /\ IF item.link \notin existing_links
       THEN /\ collected_items' = Append(collected_items, item)
            /\ existing_links' = existing_links \cup {item.link}
       ELSE UNCHANGED <<collected_items, existing_links>>
    /\ UNCHANGED <<list_file, stage, existing_data>>

\* the custom sources close_spider appends, in their order
CustomToAppend ==
    SelectSeq(CUSTOM_ANNOUNCEMENT_SOURCES, LAMBDA custom_item : custom_item.link \notin existing_links)

close_spider ==
    /\ stage = "open"
    /\ stage' = "closed"
    /\ LET all_items == existing_data \o collected_items \o CustomToAppend
       IN list_file' = [kind |-> "json", items |-> JsonDumpItems(SortedByLink(all_items))]
    /\ UNCHANGED <<existing_data, existing_links, collected_items>>

\* runs of the spider one after the other, each with the items its pages give
NextPipeline ==
    \/ open_spider /\ UNCHANGED <<manager_vars, shared_vars, events, plan, abandoned, spider_vars>>
    \/ \E link \in Links \ {<<99>>}, title \in Titles : process_item(ListItem(link, title)) /\ UNCHANGED <<manager_vars, shared_vars, events, plan, abandoned, spider_vars>>
    \/ close_spider /\ UNCHANGED <<manager_vars, shared_vars, events, plan, abandoned, spider_vars>>

SpecPipeline == InitPipeline /\ [][NextPipeline]_vars

\* ------------------------------------- the announcement-list spider
\* A url string is kept as the parts its text is made of: the scheme before ":"
\* ("" when there is none), whether "//" and an authority follow (auth), the host as
\* the pieces of its text, the path, and the value of the Lang query parameter ("" when
\* there is no query).  The urls of this model have no surrounding white space, so
\* the strip() of force_https leaves them as they are.
RPAGE_DOMAIN_SUFFIX == "site.nthu.edu.tw"

Url(scheme, auth, host, path, lang) ==
    [scheme |-> scheme, auth |-> auth, host |-> host, path |-> path, lang |-> lang]

\* None, and the empty string
NoUrl == Url("None", FALSE, <<>>, "", "")

EmptyUrl == Url("", FALSE, <<>>, "", "")

LANGUAGES == {"zh-tw", "en"}

\* hosts: a.site.nthu.edu.tw, bulletin.site.nthu.edu.tw, site.nthu.edu.tw.example.com
\* and www.example.com
OnDomainHost == <<"a.", RPAGE_DOMAIN_SUFFIX>>

BulletinHost == <<"bulletin.", RPAGE_DOMAIN_SUFFIX>>

Hosts == {OnDomainHost, <<RPAGE_DOMAIN_SUFFIX, ".example.com">>, <<"www.example.com">>}

\* the text of a url found in a page or in the directory: absolute with any scheme,
\* "//host/path", a path alone, "javascript:.." and the like, or nothing at all
UrlTexts ==
    { Url(scheme, TRUE, host, path, lang) :
        scheme \in {"", "http", "https", "HTTP", "ftp"}, host \in Hosts,
        path \in {"/", "/more"}, lang \in {"", "en"} }
    \cup { Url(scheme, FALSE, <<>>, path, "") :
             scheme \in {"", "javascript"}, path \in {"", "/more"} }

\* force_https(url)
force_https(url) ==
    IF url = EmptyUrl THEN url
    ELSE IF url.scheme = "" /\ url.auth THEN [url EXCEPT !.scheme = "https"]
    ELSE IF url.scheme = "http" /\ url.auth THEN [url EXCEPT !.scheme = "https"]
    ELSE url

\* urlparse(url).hostname: None (here <<>>) without an authority
Hostname(url) == IF url.auth THEN url.host ELSE <<>>

\* check_domain_suffix(url, suffix): the text of the host ends with the suffix
check_domain_suffix(url, suffix) ==
    /\ Hostname(url) # <<>>
    /\ Hostname(url)[Len(Hostname(url))] = suffix

\* update_url_query_param(url, "Lang", param_value): urlunparse writes the scheme
\* https with "//", whatever the url had, and the query with Lang replaced
update_url_query_param(url, param_value) ==
    Url("https", TRUE, Hostname(url), url.path, param_value)

\* response.urljoin(link): a link with a scheme stands for itself, "//host.." takes
\* the scheme of the page, and a path (or nothing) takes its scheme and host as well
urljoin(base, link) ==
    IF link.scheme # "" THEN link
    ELSE IF link.auth THEN [link EXCEPT !.scheme = base.scheme]
    ELSE IF link.path # "" THEN [base EXCEPT !.path = link.path, !.lang = link.lang]
    ELSE base

\* mutant: a url is prepared without a look at requested_urls
PrepareRequestUrl_Again(url, requested) ==
    IF url = EmptyUrl THEN NoUrl
    ELSE IF force_https(url) = EmptyUrl
            \/ ~check_domain_suffix(force_https(url), RPAGE_DOMAIN_SUFFIX) THEN NoUrl
    ELSE force_https(url)

\* _prepare_request_url(url) when self.requested_urls is requested: the normalized
\* url it returns and adds to the set, or None
PrepareRequestUrl(url, requested) ==
    IF url = EmptyUrl THEN NoUrl
    ELSE IF force_https(url) = EmptyUrl
            \/ ~check_domain_suffix(force_https(url), RPAGE_DOMAIN_SUFFIX) THEN NoUrl
    ELSE IF force_https(url) \in requested THEN NoUrl
    ELSE force_https(url)

\* the most requests of one url that are followed
MaxRepeats == 2

\* _build_request(url, callback, meta): the request is yielded unless it is None
build_request(url, callback, language) ==
    LET normalized_url == PrepareRequestUrl(url, requested_urls) IN
    IF normalized_url = NoUrl
    THEN UNCHANGED <<requested_urls, requests>>
    ELSE /\ requested_urls' = requested_urls \cup {normalized_url}
         /\ normalized_url \in DOMAIN requests => requests[normalized_url].count < MaxRepeats
         /\ requests' = [r \in DOMAIN requests \cup {normalized_url} |->
                IF r # normalized_url THEN requests[r]
                ELSE IF r \in DOMAIN requests
                THEN [requests[r] EXCEPT !.count = @ + 1]
                ELSE [count |-> 1, callback |-> callback, language |-> language]]

\* the urls of OTHER_SOURCES
OTHER_SOURCES == {Url("https", TRUE, BulletinHost, "/", lang) : lang \in LANGUAGES}

\* one turn of the loop of start(): an entry of department_urls, which holds, for
\* the websites of the directory that are on the domain, their url in each
\* language, and the other sources
start(website, lang) ==
    /\ \/ /\ check_domain_suffix(website, RPAGE_DOMAIN_SUFFIX)
          /\ build_request(update_url_query_param(website, lang), "parse", lang)
       \/ /\ website \in OTHER_SOURCES /\ website.lang = lang
          /\ build_request(website, "parse", lang)

\* one turn of the loop of _parse_more_links on the response to a request that was
\* yielded with the callback parse: link is the href of a "more" anchor of the page
parse(response_url, link) ==
    /\ response_url \in DOMAIN requests
    /\ requests[response_url].callback = "parse"
    /\ LET language == requests[response_url].language
           abs_url == update_url_query_param(urljoin(response_url, link), language)
       IN build_request(abs_url, "parse_announcement_list", language)

\* one run of the spider: the turns of start() and the responses, in any order
NextSpider ==
    \/ \E website \in UrlTexts \cup OTHER_SOURCES, lang \in LANGUAGES : start(website, lang) /\ UNCHANGED <<manager_vars, shared_vars, events, plan, abandoned, pipeline_vars>>
    \/ \E response_url \in DOMAIN requests, link \in UrlTexts : parse(response_url, link) /\ UNCHANGED <<manager_vars, shared_vars, events, plan, abandoned, pipeline_vars>>

SpecSpider == Init /\ [][NextSpider]_vars

\* ------------------------------------------------------------ claims
Known == DOMAIN url_data

Failed(url) == url_data[url].failed_attempts

\* every record but that of url, and the order of the keys, are as before the step
OthersUnchanged(url) ==
    /\ DOMAIN url_data' = DOMAIN url_data \cup {url}
    /\ \A w \in DOMAIN url_data \ {url} : url_data'[w] = url_data[w]

\* C1: update_from_full_crawl(D) leaves the keys (old keys + D); a url of D that was
\* known keeps its failed_attempts, a new one has 0, and every known url outside D
\* has exactly one more than before.
C1_Reconcile ==
    [][\A D \in SUBSET URLs :
          update_from_full_crawl(D) =>
              /\ DOMAIN url_data' = Known \cup D
              /\ \A u \in D \cap Known :
                     url_data'[u].failed_attempts = Failed(u)
              /\ \A u \in D \ Known : url_data'[u].failed_attempts = 0
              /\ \A u \in Known \ D :
                     url_data'[u].failed_attempts = Failed(u) + 1]_vars

\* a reconciliation left one url counted once without any crawl, the other at 0
C1_Witness ==
    /\ op = "update_from_full_crawl"
    /\ \E u \in Known, w \in Known :
        /\ Failed(u) = 1 /\ url_data[u].last_crawled = NoneValue
        /\ Failed(w) = 0 /\ url_data[w].last_seen = Isoformat(now)

\* C2: add_url on a known url changes only that record's last_seen.
C2_ReAdd ==
    [][\A u \in URLs, m \in MetadataArgs :
          (u \in Known /\ add_url(u, m)) =>
              /\ OthersUnchanged(u)
              /\ url_keys' = url_keys
              /\ url_data'[u].first_seen = url_data[u].first_seen
              /\ url_data'[u].last_crawled = url_data[u].last_crawled
              /\ url_data'[u].failed_attempts = Failed(u)
              /\ url_data'[u].metadata = url_data[u].metadata
              /\ url_data'[u].last_seen = Isoformat(now')]_vars

\* the only record, with three failures, was added again later than it was created
C2_Witness ==
    /\ op = "add_url"
    /\ \E u \in URLs :
        /\ Known = {u}
        /\ Failed(u) = 3
        /\ url_data[u].last_seen = Isoformat(now)
        /\ url_data[u].first_seen # url_data[u].last_seen

\* C3: add_url on an unknown url adds one record with failed_attempts 0, no
\* last_crawled, the metadata given or empty, and first_seen equal to last_seen.
C3_NewRecord ==
    [][\A u \in URLs, m \in MetadataArgs :
          (u \notin Known /\ add_url(u, m)) =>
              /\ OthersUnchanged(u)
              /\ url_keys' = Append(url_keys, u)
              /\ url_data'[u].failed_attempts = 0
              /\ url_data'[u].last_crawled = NoneValue
              /\ url_data'[u].metadata = (IF m = MetaDept THEN MetaDept ELSE MetaEmpty)
              /\ url_data'[u].first_seen = url_data'[u].last_seen]_vars

\* C4: mark_crawled on a known url sets last_crawled to now and failed_attempts to 0
\* on success, to one more on failure; nothing else changes.
C4_MarkCrawled ==
    [][\A u \in URLs, success \in BOOLEAN :
          (u \in Known /\ mark_crawled(u, success)) =>
              /\ OthersUnchanged(u)
              /\ url_keys' = url_keys
              /\ url_data'[u].last_crawled = Isoformat(now')
              /\ url_data'[u].failed_attempts = (IF success THEN 0 ELSE Failed(u) + 1)
              /\ url_data'[u].first_seen = url_data[u].first_seen
              /\ url_data'[u].last_seen = url_data[u].last_seen
              /\ url_data'[u].metadata = url_data[u].metadata]_vars

\* a crawl just failed for the fifth time on a record seen before the crawl
C4_Witness ==
    /\ op = "mark_crawled"
    /\ \E u \in Known :
        /\ Failed(u) = 5
        /\ url_data[u].last_crawled = Isoformat(now)
        /\ url_data[u].last_seen # Isoformat(now)

\* C5: mark_crawled on an unknown url changes nothing, for either value of success.
C5_MarkUnknown ==
    [][\A u \in URLs, success \in BOOLEAN :
          (u \notin Known /\ mark_crawled(u, success)) =>
              UNCHANGED <<url_data, url_keys, now, file>>]_vars

\* mark_crawled was called while one url was known: the other one is still unknown
C5_Witness ==
    /\ op = "mark_crawled"
    /\ Cardinality(Known) = 1
    /\ \A u \in Known : url_data[u].last_crawled = NoneValue

\* a before b in the order of their code points
RECURSIVE LexBefore(_, _)
LexBefore(a, b) ==
    IF b = <<>> THEN FALSE
    ELSE IF a = <<>> THEN TRUE
    ELSE IF Head(a) # Head(b) THEN Head(a) < Head(b)
    ELSE LexBefore(Tail(a), Tail(b))

\* C6: get_urls_to_crawl() returns exactly the urls with failed_attempts < 5, each
\* once, in ascending order.
C6_UrlsToCrawl ==
    /\ {UrlsToCrawl[i] : i \in 1..Len(UrlsToCrawl)} = {u \in Known : Failed(u) < 5}
    /\ Len(UrlsToCrawl) = Cardinality({u \in Known : Failed(u) < 5})
    /\ \A i \in 1..Len(UrlsToCrawl), j \in 1..Len(UrlsToCrawl) :
           i < j => LexBefore(UrlsToCrawl[i], UrlsToCrawl[j])

\* the selector ran on one record at 4 and one at 6, inserted in descending order
C6_Witness ==
    /\ op = "get_urls_to_crawl"
    /\ Len(url_keys) = 2
    /\ LexBefore(url_keys[2], url_keys[1])
    /\ Failed(url_keys[1]) = 4
    /\ Failed(url_keys[2]) = 6
    /\ UrlsToCrawl = <<url_keys[1]>>

\* C7: from one step to the next the failed_attempts of a url decreases only in a
\* mark_crawled(url, success=True) step.
C7_Monotone ==
    [][\A u \in Known \cap DOMAIN url_data' :
          url_data'[u].failed_attempts < Failed(u) => mark_crawled(u, TRUE)]_vars

\* a successful crawl reset a record that reconciliation still keeps at 0
C7_Witness ==
    /\ op = "update_from_full_crawl"
    /\ \E u \in Known, w \in Known :
        /\ Failed(u) = 0 /\ url_data[u].last_crawled # NoneValue
        /\ Failed(w) = 6

\* C8 as stated: whatever happens, cleanup and rediscovery included, a url in the
\* store has the first_seen it got when it was first created.
C8_FirstSeenForever ==
    \A u \in Known : url_data[u].first_seen = created[u]

\* C8: while a record exists its first_seen does not change; a url that cleanup
\* removed gets, when it is found again, a new record with a first_seen of that time.
C8_FirstSeenFixed ==
    [][\A u \in Known \cap DOMAIN url_data' :
          url_data'[u].first_seen = url_data[u].first_seen]_vars

\* a record that was seen again and crawled after its creation
C8_Witness ==
    /\ op = "mark_crawled"
    /\ \E u \in Known :
        /\ url_data[u].first_seen = Isoformat(0)
        /\ url_data[u].first_seen = created[u]
        /\ url_data[u].last_seen = Isoformat(1)
        /\ url_data[u].last_crawled = Isoformat(1)

\* C9: a key leaves the store only in a cleanup_old_urls step, and then its
\* last_seen is older than the cutoff; no other call, save included, removes one.
C9_OnlyCleanupRemoves ==
    [][\A u \in Known \ DOMAIN url_data' :
          \E days \in Days :
              /\ cleanup_old_urls(days)
              /\ url_data[u].last_seen.v < now' - days]_vars

\* the cycle was saved with a record at 5 or more still in the store and the file
C9_Witness ==
    /\ op = "save"
    /\ \E u \in Known : Failed(u) >= 5 /\ u \in DOMAIN file.urls

\* C10: cleanup_old_urls(days) removes exactly the records whose last_seen is
\* earlier than now - days, and leaves the others as they were.
C10_Cleanup ==
    [][\A days \in Days :
          cleanup_old_urls(days) =>
              /\ DOMAIN url_data' = {u \in Known : ~(url_data[u].last_seen.v < now' - days)}
              /\ \A u \in DOMAIN url_data' : url_data'[u] = url_data[u]]_vars

\* after a cleanup the only record left has failed_attempts >= 5 and was seen now,
\* while the other url, which had been created, is gone
C10_Witness ==
    /\ op = "cleanup_old_urls"
    /\ \E u \in URLs, w \in URLs :
        /\ Known = {u}
        /\ Failed(u) >= 5
        /\ url_data[u].last_seen = Isoformat(now)
        /\ w # u /\ created[w] # NoneValue

\* the fields of a record of the data model
RecordFields == {"first_seen", "last_seen", "last_crawled", "failed_attempts", "metadata"}

C15_SavedDocument ==
    op = "save" =>
        /\ file.kind = "json"
        /\ file.url_count = Cardinality(DOMAIN file.urls)
        /\ file.last_updated = JsonString(Isoformat(now))
        /\ \A u \in DOMAIN file.urls : file.urls[u].last_seen.v <= file.last_updated.v
        /\ DOMAIN file.urls = Known
        /\ {file.keys[i] : i \in 1..Len(file.keys)} = DOMAIN file.urls
        /\ Len(file.keys) = Cardinality(DOMAIN file.urls)
        /\ \A i \in 1..Len(file.keys), j \in 1..Len(file.keys) :
               i < j => LexBefore(file.keys[i], file.keys[j])

\* a store whose keys were inserted in descending order was saved after the clock
\* had advanced past the last change to it
C15_Witness ==
    /\ op = "save"
    /\ Len(url_keys) = 2
    /\ LexBefore(url_keys[2], url_keys[1])
    /\ file.keys = <<url_keys[2], url_keys[1]>>
    /\ file.url_count = 2
    /\ file.last_updated = JsonString(Isoformat(1))
    /\ \A u \in Known : url_data[u].last_seen = Isoformat(0)

\* the last_seen of the record of url is missing, null or no timestamp
LastSeenUnparsable(url) ==
    \/ "last_seen" \notin DOMAIN url_data[url]
    \/ url_data[url].last_seen = NoneValue
    \/ url_data[url].last_seen.tag = "str"

\* C11: cleanup_old_urls returns without raising; a record whose last_seen is
\* missing, null or not parsable stays as it is, and a record of the same store whose
\* last_seen parses and is older than the cutoff is removed.
C11_CleanupKeeps ==
    [][\A days \in Days :
          cleanup_old_urls(days) =>
              /\ raised' = NoException
              /\ \A u \in Known :
                     IF LastSeenUnparsable(u)
                     THEN u \in DOMAIN url_data' /\ url_data'[u] = url_data[u]
                     ELSE url_data[u].last_seen.v < now' - days => u \notin DOMAIN url_data']_vars

\* of the two records of the file, cleanup removed the one last seen at 0 and kept
\* the one whose last_seen does not parse
C11_Witness ==
    /\ op = "cleanup_old_urls"
    /\ raised = NoException
    /\ file.kind = "json"
    /\ \E u \in URLs, w \in URLs :
        /\ DOMAIN file.urls = {u, w}
        /\ Known = {u}
        /\ LastSeenUnparsable(u)
        /\ "last_seen" \in DOMAIN file.urls[w]
        /\ file.urls[w].last_seen = JsonString(Isoformat(0))

\* C12: the load() of the constructor on a path where no file exists, or on a file
\* whose content is not valid JSON, returns without raising and leaves the store empty.
C12_ColdStart ==
    (op = "load" /\ calls = 0 /\ file.kind \in {"missing", "bytes", "text"}) =>
        /\ raised = NoException
        /\ Known = {}

\* C13: whatever the file holds, load() returns without raising and leaves a
\* mapping on which every later call returns as well.
C13_NeverCrashes ==
    op \in {"load", "add_url", "mark_crawled", "get_urls_to_crawl", "cleanup_old_urls",
            "update_from_full_crawl", "get_statistics", "save"} =>
        raised = NoException

\* C17: get_statistics() returns, whatever the last_crawled of the records are.
C17_StatisticsTolerant ==
    op = "get_statistics" => raised = NoException

\* the records crawled less than 24 hours (one day) before the instant t
CrawledWithinADayOf(t) ==
    {u \in Known : url_data[u].last_crawled # NoneValue /\ url_data[u].last_crawled.v > t - 1}

\* C16: get_statistics() returns total_urls = the number of records, failed_urls =
\* the number of records with failed_attempts >= 5, active_urls = total_urls -
\* failed_urls, and recently_crawled = the number of records crawled within the 24
\* hours before the call: at least those recent when the call ends, at most those
\* recent when it starts, hence exactly that number when the clock stands still.
C16_Statistics ==
    /\ Statistics # {}
    /\ \A r \in Statistics :
        /\ r.total_urls = Cardinality(Known)
        /\ r.failed_urls = Cardinality({u \in Known : Failed(u) >= 5})
        /\ r.active_urls = r.total_urls - r.failed_urls
        /\ r.recently_crawled >= Cardinality(CrawledWithinADayOf(r.now))
        /\ r.recently_crawled <= Cardinality(CrawledWithinADayOf(now))

\* statistics of two records, one of them failed and crawled a day ago, the other
\* crawled now: 2 / 1 / 1, one recently crawled
C16_Witness ==
    /\ op = "get_statistics"
    /\ now = 1
    /\ \E u \in Known, w \in Known :
        /\ Failed(u) >= 5 /\ url_data[u].last_crawled = Isoformat(0)
        /\ Failed(w) < 5 /\ url_data[w].last_crawled = Isoformat(1)
    /\ Statistics = {[total_urls |-> 2, active_urls |-> 1, failed_urls |-> 1,
                      recently_crawled |-> 1, now |-> 1]}

\* url is in the list get_urls_to_crawl() returns
InPlan(url) == \E i \in 1..Len(UrlsToCrawl) : UrlsToCrawl[i] = url

\* C18 as stated: a record excluded from the plan is back in it after an add_url for
\* it, after an update_from_full_crawl that discovered it, and after a successful crawl.
C18_RediscoveryReturns ==
    [][\A u \in Known :
          (/\ ~InPlan(u)
           /\ \/ \E m \in MetadataArgs : add_url(u, m)
              \/ \E D \in SUBSET URLs : u \in D /\ update_from_full_crawl(D)
              \/ mark_crawled(u, TRUE))
          => InPlan(u)']_vars

\* C18: a record excluded from the plan returns to it through a successful
\* mark_crawled for it and through no other call; an add_url for it or an
\* update_from_full_crawl that discovered it keeps the record and leaves it excluded.
C18_OnlySuccessReturns ==
    [][\A u \in Known :
          ~InPlan(u) =>
              /\ \A m \in MetadataArgs :
                     (op' = "add_url" /\ add_url(u, m)) =>
                         u \in DOMAIN url_data' /\ ~InPlan(u)'
              /\ \A D \in SUBSET URLs :
                     (op' = "update_from_full_crawl" /\ u \in D /\ update_from_full_crawl(D)) =>
                         u \in DOMAIN url_data' /\ ~InPlan(u)'
              /\ (op' = "mark_crawled" /\ mark_crawled(u, TRUE)) => InPlan(u)'
              /\ InPlan(u)' => mark_crawled(u, TRUE)]_vars

\* the only record, excluded with five failures, was discovered again by a
\* reconciliation a day after its creation: the plan is still empty
C18_Witness ==
    /\ op = "update_from_full_crawl"
    /\ \E u \in URLs :
        /\ Known = {u}
        /\ Failed(u) = 5
        /\ url_data[u].first_seen = Isoformat(0)
        /\ url_data[u].last_seen = Isoformat(1)
        /\ url_data[u].last_crawled = Isoformat(0)
    /\ UrlsToCrawl = <<>>

\* C19 as stated: a url that get_urls_to_crawl() excludes has been through five
\* cycles or more since its creation or last success.
C19_FiveCycles ==
    \A u \in Known : ~InPlan(u) => cycles[u].n >= 5

\* C19: a url that get_urls_to_crawl() excludes has had its failed_attempts raised
\* five times since its creation or last success; a cycle raises it twice at most
\* (a missed reconciliation and a failed crawl), so the url has been through three
\* cycles or more, and fewer than three never exclude it.
C19_ThreeCycles ==
    \A u \in Known :
        /\ Failed(u) <= 2 * cycles[u].n
        /\ ~InPlan(u) => cycles[u].n >= 3

\* a url was excluded in its third cycle by the reconciliation that missed it
C19_Witness ==
    /\ op = "update_from_full_crawl"
    /\ \E u \in Known :
        /\ ~InPlan(u)
        /\ Failed(u) = 5
        /\ cycles[u] = [n |-> 3, open |-> TRUE]

\* C20: two calls of update_from_full_crawl in sequence with the same set D raise
\* the failed_attempts of every known url outside D by exactly 2 in total; the keys
\* and the failed_attempts of every url of D are after the second call what they
\* were after the first.
C20_NotIdempotent ==
    \A D \in SUBSET URLs :
        \A s1 \in UpdateFromFullCrawlOutcomes(Store(url_data, url_keys, now), D) :
            \A s2 \in UpdateFromFullCrawlOutcomes(s1, D) :
                /\ DOMAIN s2.data = DOMAIN s1.data
                /\ s2.keys = s1.keys
                /\ \A u \in D : s2.data[u].failed_attempts = s1.data[u].failed_attempts
                /\ \A u \in Known \ D : s2.data[u].failed_attempts = Failed(u) + 2
                /\ \A u \in Known \ D : s1.data[u].failed_attempts = Failed(u) + 1

\* two reconciliations in a row found one url, created by the first and seen again
\* by the second, and missed the other, which was never crawled and now counts 2
C20_Witness ==
    /\ op = "update_from_full_crawl"
    /\ \E u \in Known, w \in Known :
        /\ Failed(u) = 2 /\ url_data[u].last_crawled = NoneValue
        /\ url_data[u].last_seen = Isoformat(0)
        /\ Failed(w) = 0 /\ url_data[w].last_crawled = NoneValue
        /\ url_data[w].first_seen = Isoformat(0)
        /\ url_data[w].last_seen = Isoformat(1)

\* C21: get_urls_to_crawl() and get_statistics() change no record and no key, so the
\* sequence get_urls_to_crawl() returns is the same before and after either call;
\* save() leaves it as it is too, and the load() that follows a save() gives a store
\* for which get_urls_to_crawl() returns the same sequence again.
C21_ReadOnly ==
    [][/\ (get_urls_to_crawl \/ get_statistics \/ save) =>
              /\ url_data' = url_data
              /\ url_keys' = url_keys
              /\ UrlsToCrawl' = UrlsToCrawl
       /\ (op = "save" /\ load) =>
              /\ DOMAIN url_data' = Known
              /\ UrlsToCrawl' = UrlsToCrawl]_vars

\* a store whose keys were inserted in descending order, one record excluded and
\* one with failures still in the plan, was saved and loaded back: the plan is the
\* one url, and the keys now stand in the order of the file
C21_Witness ==
    /\ op = "load"
    /\ file.kind = "json"
    /\ \E u \in Known, w \in Known :
        /\ LexBefore(u, w)
        /\ url_data[u].first_seen = Isoformat(1) /\ url_data[w].first_seen = Isoformat(0)
        /\ Failed(u) >= 5
        /\ Failed(w) = 4
        /\ UrlsToCrawl = <<w>>
        /\ url_keys = <<u, w>>

\* C22: a record gets its metadata from the call that creates it: the mapping passed
\* to add_url, empty when none was passed, and empty when update_from_full_crawl
\* creates it; only those two calls create records, and no call (add_url with other
\* metadata, mark_crawled, a reconciliation, a cleanup that keeps the record)
\* changes the metadata of a record that exists before and after it.
C22_MetadataFirstWrite ==
    [][/\ \A u \in URLs \ Known, metadata \in MetadataArgs :
              (op' = "add_url" /\ add_url(u, metadata)) =>
                  url_data'[u].metadata = MetadataOrEmpty(metadata)
       /\ \A D \in SUBSET URLs :
              (op' = "update_from_full_crawl" /\ update_from_full_crawl(D)) =>
                  \A u \in D \ Known : url_data'[u].metadata = MetaEmpty
       /\ \A u \in DOMAIN url_data' \ Known :
              op' \in {"add_url", "update_from_full_crawl"}
       /\ \A u \in Known \cap DOMAIN url_data' :
              url_data'[u].metadata = url_data[u].metadata]_vars

\* a record created with a department and one created by a reconciliation have both
\* failed, been crawled and been added again a day later: each has the metadata of
\* its creation
C22_Witness ==
    /\ op = "add_url"
    /\ \E u \in Known, w \in Known :
        /\ url_data[u].metadata = MetaDept /\ url_data[w].metadata = MetaEmpty
        /\ url_data[u].first_seen = Isoformat(0) /\ url_data[u].last_seen = Isoformat(1)
        /\ url_data[w].first_seen = Isoformat(0) /\ url_data[w].last_seen = Isoformat(1)
        /\ Failed(u) >= 1 /\ url_data[u].last_crawled # NoneValue
        /\ Failed(w) >= 1 /\ url_data[w].last_crawled # NoneValue

\* C23: as long as no cycle has loaded while the cycle of another instance was open
\* (the cycles were serialized), the file holds, whenever no cycle is open, every
\* url that some cycle added and no cleanup removed.
C23_SerializedKeepsAll ==
    (~overlapped /\ \A i \in Managers : ~open[i]) => added \subseteq DOMAIN file.urls

\* instance 1 added a url and saved, then instance 2 loaded, added the other a day
\* later and saved: the file holds both
C23_Witness ==
    /\ ~overlapped /\ \A i \in Managers : ~open[i]
    /\ self = 2 /\ op = "save"
    /\ added = URLs
    /\ DOMAIN file.urls = URLs
    /\ DOMAIN instances[1].data # URLs
    /\ \E u \in DOMAIN instances[1].data :
        /\ instances[1].data[u].first_seen = Isoformat(0)
        /\ \A w \in URLs \ {u} : url_data[w].first_seen = Isoformat(1)

\* two cycles overlapped and the later save() overwrote what the other had added:
\* no cycle is open and a url that was added and never removed is not in the file
C23_LostUpdate ==
    /\ overlapped /\ \A i \in Managers : ~open[i]
    /\ \E u \in added : u \notin DOMAIN file.urls

\* C24: the load() that follows a save() cut short after it emptied the file returns
\* without raising and leaves the store empty.
C24_InterruptedSave ==
    (op = "load" /\ file.kind \in {"text", "bytes"}) =>
        /\ raised = NoException
        /\ Known = {}

\* C25: the failed_attempts of every record is a natural number, equal to the number
\* of reconciliations that omitted the url plus the number of failed crawls reported
\* for it since the record was created or last reported as crawled with success.
C25_CountsFailureEvents ==
    \A u \in Known :
        /\ Failed(u) \in Nat
        /\ Failed(u) = events[u].missed + events[u].failed

\* one reconciliation missed the url and one crawl of it failed, both on the day of
\* its creation: the record counts 2
C25_Witness ==
    \E u \in Known :
        /\ events[u] = [missed |-> 1, failed |-> 1]
        /\ Failed(u) = 2
        /\ url_data[u].last_seen = Isoformat(0)
        /\ url_data[u].last_crawled = Isoformat(0)
        /\ now = 0

\* C26: whatever get_statistics() returns, its active_urls is the length of the list
\* get_urls_to_crawl() returns and its failed_urls is the number of stored urls that
\* are not in that list; the two add up to total_urls, the number of stored urls.
C26_SelectorAgrees ==
    /\ Statistics # {}
    /\ \A r \in Statistics :
        /\ r.active_urls = Len(UrlsToCrawl)
        /\ r.failed_urls = Cardinality({u \in Known : ~InPlan(u)})
        /\ r.active_urls + r.failed_urls = r.total_urls
        /\ r.total_urls = Cardinality(Known)

\* statistics were taken of a store with one record at the threshold and one just
\* below it: one active, one failed, and the plan is the record below the threshold
C26_Witness ==
    /\ op = "get_statistics"
    /\ \E u \in Known, w \in Known :
        /\ Failed(u) = 5 /\ Failed(w) = 4
        /\ UrlsToCrawl = <<w>>
    /\ \A r \in Statistics : r.active_urls = 1 /\ r.failed_urls = 1 /\ r.total_urls = 2

\* C27 as stated: for a caller that reports crawls only of the urls of its last
\* plan, a record with failed_attempts >= 5 keeps failed_attempts >= 5 and stays out
\* of the crawl plan through every call, unless cleanup_old_urls removes it.
C27_Absorbing ==
    [][\A u \in Known :
          Failed(u) >= 5 =>
              \/ u \in DOMAIN url_data' /\ url_data'[u].failed_attempts >= 5 /\ ~InPlan(u)'
              \/ u \notin DOMAIN url_data' /\ op' = "cleanup_old_urls"]_vars

\* C27: for such a caller, a record with failed_attempts >= 5 that is not in the
\* list the caller holds keeps failed_attempts >= 5, stays out of every crawl plan
\* and out of the caller's list through every call, unless cleanup_old_urls removes
\* it; a record that reached 5 while the caller's list still names it can be reset
\* by a reported success.
C27_AbsorbingOutsidePlan ==
    [][\A u \in Known :
          (Failed(u) >= 5 /\ ~Planned(u)) =>
              \/ /\ u \in DOMAIN url_data' /\ url_data'[u].failed_attempts >= 5
                 /\ ~InPlan(u)' /\ ~Planned(u)'
              \/ u \notin DOMAIN url_data' /\ op' = "cleanup_old_urls"]_vars

\* a record with six failures that the caller's list does not name was discovered
\* again by a reconciliation a day after it was last crawled, while the other url,
\* which the list names, was crawled with success: the first stays excluded
C27_Witness ==
    /\ op = "update_from_full_crawl"
    /\ \E u \in Known, w \in Known :
        /\ Failed(u) = 6 /\ ~Planned(u) /\ ~InPlan(u)
        /\ url_data[u].last_crawled = Isoformat(0) /\ url_data[u].last_seen = Isoformat(1)
        /\ plan = <<w>>
        /\ Failed(w) = 0 /\ url_data[w].last_crawled = Isoformat(1)

\* C28: the last_seen of an abandoned url's record stays what it is through every
\* call; and when its age can pass days within the time the clock covers, the record
\* is eventually removed, whatever crawls of it are reported in the meantime.
C28_EventuallyRemoved ==
    /\ [][\A u \in abandoned \cap Known :
              u \in DOMAIN url_data' => url_data'[u].last_seen = url_data[u].last_seen]_vars
    /\ \A u \in Followed, days \in Days :
           (u \in abandoned /\ u \in Known /\ url_data[u].last_seen.v + days < MaxTime)
               ~> (u \notin Known)

\* an abandoned url has been removed by a cleanup, while a url that is still
\* discovered stays, crawled and seen on the last day
C28_Witness ==
    /\ op = "cleanup_old_urls"
    /\ now = MaxTime
    /\ \E u \in abandoned, w \in Known :
        /\ u \notin Known
        /\ w \notin abandoned
        /\ url_data[w].last_seen = Isoformat(MaxTime)
        /\ url_data[w].last_crawled = Isoformat(MaxTime)

\* the list the file holds, and how often an entry and a link occur in a list
ListOf(f) == LoadJsonOrEmpty(f)

Occurrences(items, e) == Cardinality({i \in 1..Len(items) : items[i] = e})

LinkOccurrences(items, link) == Cardinality({i \in 1..Len(items) : items[i].link = link})

\* C29: open_spider and process_item leave the file as it is, and close_spider
\* writes a list in which every entry the file held occurs at least as often as
\* before; a link the file already held gets no further entry; a link it did not
\* hold gets one entry at most, and the link of a custom source gets one when the
\* file did not hold it; the list is in ascending order of link.
C29_ListOnlyGrows ==
    [][/\ (open_spider \/ \E link \in Links, title \in Titles : process_item(ListItem(link, title)))
              => list_file' = list_file
       /\ close_spider =>
              LET old == ListOf(list_file)
                  new == ListOf(list_file')
              IN /\ list_file'.kind = "json"
                 /\ \A i \in 1..Len(old) : Occurrences(new, old[i]) >= Occurrences(old, old[i])
                 /\ \A link \in LinksOf(old) :
                        LinkOccurrences(new, link) = LinkOccurrences(old, link)
                 /\ \A link \in Links \ LinksOf(old) : LinkOccurrences(new, link) <= 1
                 /\ \A i \in 1..Len(CUSTOM_ANNOUNCEMENT_SOURCES) :
                        CUSTOM_ANNOUNCEMENT_SOURCES[i].link \in LinksOf(new)
                 /\ \A i \in 1..Len(new), j \in 1..Len(new) :
                        i < j => ~StrLess(new[j].link, new[i].link)]_vars

\* a run on a file that listed "c" before "b" collected "a": the file it wrote holds
\* "a", then the old "b" and "c", and no custom source was appended
C29_Witness ==
    /\ stage = "closed"
    /\ existing_data = <<ListItem(<<99>>, "old"), ListItem(<<98>>, "old")>>
    /\ collected_items = <<ListItem(<<97>>, "new")>>
    /\ ListOf(list_file) =
           <<ListItem(<<97>>, "new"), ListItem(<<98>>, "old"), ListItem(<<99>>, "old")>>

\* C30: every url the spider has requested was requested once, has the scheme https
\* and a host whose text ends with site.nthu.edu.tw, and is in requested_urls; and
\* whatever text is handed to _prepare_request_url next, an empty one, one whose url
\* is off the domain and one whose url was already requested give no request, while a
\* url that starts with http:// or // is requested, if at all, with https.
C30_RequestedOnceHttps ==
    /\ requested_urls = DOMAIN requests
    /\ \A url \in DOMAIN requests :
        /\ requests[url].count = 1
        /\ url.scheme = "https"
        /\ url.auth /\ url.host # <<>> /\ url.host[Len(url.host)] = "site.nthu.edu.tw"
    /\ \A url \in UrlTexts \cup {EmptyUrl} :
        LET normalized == PrepareRequestUrl(url, requested_urls) IN
        /\ (\/ url = EmptyUrl
            \/ ~url.auth
            \/ url.host[Len(url.host)] # "site.nthu.edu.tw"
            \/ force_https(url) \in requested_urls) => normalized = NoUrl
        /\ (url.auth /\ url.scheme \in {"", "http"} /\ normalized # NoUrl) =>
               normalized = [url EXCEPT !.scheme = "https"]

\* both languages of a department's site and of the bulletin were requested, and of
\* the "more" pages found on them one in each language
C30_Witness ==
    /\ \A lang \in LANGUAGES :
        /\ Url("https", TRUE, OnDomainHost, "/", lang) \in requested_urls
        /\ Url("https", TRUE, BulletinHost, "/", lang) \in requested_urls
        /\ \E url \in requested_urls :
               /\ url.path = "/more" /\ url.lang = lang
               /\ requests[url].callback = "parse_announcement_list"
    /\ requests[Url("https", TRUE, OnDomainHost, "/", "en")].callback = "parse"

====
